---------------------------- MODULE Spec2Model ----------------------------
(***************************************************************************)
(* range-normalize: normalize(range) of src/unnamed/part_000, the          *)
(* leaf-seeking variant.  The document tree is the DOM the function reads  *)
(* (childNodes, firstChild, lastChild, nextSibling, previousSibling,       *)
(* parentNode, nodeType, length); the range is the (startContainer,        *)
(* startOffset, endContainer, endOffset) record it reads and writes.       *)
(***************************************************************************)
EXTENDS Integers, Sequences, FiniteSets, TLC

\* Bounds of the model: the largest tree and the longest text node.
MaxNodes == 4
MaxTextLen == 1

\* null / undefined of the source.
Null == 0
\* Node.ELEMENT_NODE
ELEMENT_NODE == 1
\* Node.TEXT_NODE, the 3 of `start.nodeType === 3`
TEXT_NODE == 3

VARIABLES
    parentNode,  \* node -> its parent, Null for the root
    childNodes,  \* node -> the sequence of its children, in order
    nodeType,    \* node -> ELEMENT_NODE or TEXT_NODE
    length,      \* text node -> its number of characters
    range,       \* [sc, so, ec, eo]: the Range object normalize is called on
    input,       \* the boundaries range had when the latest call started
    normalized,  \* whether normalize has been called on range
    threw,       \* whether the latest call ended in an exception
    cand         \* [start, end]: the candidates the latest call's searches ended on

tree == <<parentNode, childNodes, nodeType, length>>
vars == <<parentNode, childNodes, nodeType, length, range, input, normalized, threw, cand>>

Node == DOMAIN parentNode

---------------------------------------------------------------------------
(* The DOM's navigation, as the source reads it. *)

\* node.childNodes.length
childCount(node) == Len(childNodes[node])

\* node.length || 0 : a text node's length, 0 for a node with no length
Length(node) == IF nodeType[node] = TEXT_NODE THEN length[node] ELSE 0

firstChild(node) ==
    IF childNodes[node] = <<>> THEN Null ELSE childNodes[node][1]

lastChild(node) ==
    IF childNodes[node] = <<>> THEN Null ELSE childNodes[node][childCount(node)]

\* The index of node among its parent's children, counted from 0.
indexOf(node) ==
    LET sibs == childNodes[parentNode[node]]
    IN  (CHOOSE i \in 1..Len(sibs) : sibs[i] = node) - 1

nextSibling(node) ==
    IF parentNode[node] = Null THEN Null
    ELSE LET sibs == childNodes[parentNode[node]]
             i == indexOf(node) + 1
         IN  IF i < Len(sibs) THEN sibs[i + 1] ELSE Null

previousSibling(node) ==
    IF parentNode[node] = Null THEN Null
    ELSE LET sibs == childNodes[parentNode[node]]
             i == indexOf(node) + 1
         IN  IF i > 1 THEN sibs[i - 1] ELSE Null

---------------------------------------------------------------------------
(* The traversal helpers. *)

RECURSIVE firstLeaf(_)
firstLeaf(node) ==
    IF firstChild(node) # Null THEN firstLeaf(firstChild(node)) ELSE node

RECURSIVE lastLeaf(_)
lastLeaf(node) ==
    IF lastChild(node) # Null THEN lastLeaf(lastChild(node)) ELSE node

\* while (!node.nextSibling) { node = node.parentNode; if (!node) return null }
\* return node.nextSibling
RECURSIVE forwardClimb(_)
forwardClimb(node) ==
    IF nextSibling(node) # Null THEN nextSibling(node)
    ELSE IF parentNode[node] = Null THEN Null
    ELSE forwardClimb(parentNode[node])

documentForward(node) ==
    IF firstChild(node) # Null THEN firstChild(node) ELSE forwardClimb(node)

RECURSIVE reverseClimb(_)
reverseClimb(node) ==
    IF previousSibling(node) # Null THEN previousSibling(node)
    ELSE IF parentNode[node] = Null THEN Null
    ELSE reverseClimb(parentNode[node])

documentReverse(node) ==
    IF lastChild(node) # Null THEN lastChild(node) ELSE reverseClimb(node)

---------------------------------------------------------------------------
(* normalize *)

\* Mutant: the predicate without its childNodes.length test.
isLeafNodeInRange_NoLeafCheck(node, sc, so, ec, eo) ==
    IF node = sc /\ so = Length(node) THEN FALSE
    ELSE IF node = ec /\ eo = 0 THEN FALSE
    ELSE TRUE

\* Mutant: the predicate without its trailing-edge test on the start container.
isLeafNodeInRange_NoStartEdge(node, sc, so, ec, eo) ==
    IF childCount(node) # 0 THEN FALSE
    ELSE IF node = ec /\ eo = 0 THEN FALSE
    ELSE TRUE

\* The predicate normalize closes over its working sc, so, ec, eo.
isLeafNodeInRange(node, sc, so, ec, eo) ==
    IF childCount(node) # 0 THEN FALSE
    ELSE IF node = sc /\ so = Length(node) THEN FALSE
    ELSE IF node = ec /\ eo = 0 THEN FALSE
    ELSE TRUE

\* Mutant: the start search without its `start !== end` stop.
RECURSIVE startSearch_NoStop(_, _, _, _, _, _)
startSearch_NoStop(start, end, sc, so, ec, eo) ==
    IF start # Null /\ ~isLeafNodeInRange(start, sc, so, ec, eo)
    THEN startSearch_NoStop(documentForward(start), end, sc, so, ec, eo)
    ELSE start

\* while (start && !isLeafNodeInRange(start) && start !== end)
\*     start = documentForward(start)
RECURSIVE startSearch(_, _, _, _, _, _)
startSearch(start, end, sc, so, ec, eo) ==
    IF start # Null /\ ~isLeafNodeInRange(start, sc, so, ec, eo) /\ start # end
    THEN startSearch(documentForward(start), end, sc, so, ec, eo)
    ELSE start

\* Mutant: the end search without its `end !== start` stop.
RECURSIVE endSearch_NoStop(_, _, _, _, _, _)
endSearch_NoStop(end, start, sc, so, ec, eo) ==
    IF end # Null /\ ~isLeafNodeInRange(end, sc, so, ec, eo)
    THEN endSearch_NoStop(documentReverse(end), start, sc, so, ec, eo)
    ELSE end

\* while (end && !isLeafNodeInRange(end) && end !== start)
\*     end = documentReverse(end)
RECURSIVE endSearch(_, _, _, _, _, _)
endSearch(end, start, sc, so, ec, eo) ==
    IF end # Null /\ ~isLeafNodeInRange(end, sc, so, ec, eo) /\ end # start
    THEN endSearch(documentReverse(end), start, sc, so, ec, eo)
    ELSE end

\* Mutant: the sibling-boundary step of the start with `so = 0` for
\* `so = sc.length || 0`.
startAnchor_ZeroOffset(r) ==
    IF childCount(r.sc) # 0 /\ r.so > 0
    THEN [c |-> lastLeaf(childNodes[r.sc][r.so]), o |-> 0]
    ELSE [c |-> r.sc, o |-> r.so]

\* The working start (container, offset) after the sibling-boundary step.
startAnchor(r) ==
    IF childCount(r.sc) # 0 /\ r.so > 0
    THEN LET leaf == lastLeaf(childNodes[r.sc][r.so])
         IN  [c |-> leaf, o |-> Length(leaf)]
    ELSE [c |-> r.sc, o |-> r.so]

\* Mutant: the end without its sibling-boundary step.
endAnchor_NoRetarget(r) == [c |-> r.ec, o |-> r.eo]

\* The working end (container, offset) after the sibling-boundary step.
endAnchor(r) ==
    IF r.eo < childCount(r.ec)
    THEN [c |-> firstLeaf(childNodes[r.ec][r.eo + 1]), o |-> 0]
    ELSE [c |-> r.ec, o |-> r.eo]

\* Mutant: the start commit with the end commit's offset, start.length.
startCommit_EndOffset(start, sc, so) ==
    IF start = sc THEN [ok |-> TRUE, c |-> sc, o |-> so]
    ELSE IF start = Null THEN [ok |-> FALSE, c |-> Null, o |-> 0]
    ELSE IF nodeType[start] = TEXT_NODE THEN [ok |-> TRUE, c |-> start, o |-> Length(start)]
    ELSE IF parentNode[start] = Null THEN [ok |-> FALSE, c |-> Null, o |-> 0]
    ELSE [ok |-> TRUE, c |-> parentNode[start], o |-> indexOf(start)]

\* What the start commit writes: [ok, c, o]; ok is FALSE when it throws
\* (start is null, or setStartBefore is given a node without a parent).
\* setStartBefore(node) is setStart(node.parentNode, index of node) and
\* setEndAfter(node) is setEnd(node.parentNode, index of node + 1).  A DOM Range
\* also moves its other boundary when a setter would leave start after end;
\* C3_OrderPreserved shows the two written boundaries are in order, and the
\* end is always written after the start, so the Range ends up holding
\* exactly the two boundaries written here.
startCommit(start, sc, so) ==
    IF start = sc THEN [ok |-> TRUE, c |-> sc, o |-> so]
    ELSE IF start = Null THEN [ok |-> FALSE, c |-> Null, o |-> 0]
    ELSE IF nodeType[start] = TEXT_NODE THEN [ok |-> TRUE, c |-> start, o |-> 0]
    ELSE IF parentNode[start] = Null THEN [ok |-> FALSE, c |-> Null, o |-> 0]
    ELSE [ok |-> TRUE, c |-> parentNode[start], o |-> indexOf(start)]

\* Mutant: the end commit with the start commit's offset, 0.
endCommit_ZeroOffset(end, ec, eo) ==
    IF end = ec THEN [ok |-> TRUE, c |-> ec, o |-> eo]
    ELSE IF end = Null THEN [ok |-> FALSE, c |-> Null, o |-> 0]
    ELSE IF nodeType[end] = TEXT_NODE THEN [ok |-> TRUE, c |-> end, o |-> 0]
    ELSE IF parentNode[end] = Null THEN [ok |-> FALSE, c |-> Null, o |-> 0]
    ELSE [ok |-> TRUE, c |-> parentNode[end], o |-> indexOf(end) + 1]

\* What the end commit writes.
endCommit(end, ec, eo) ==
    IF end = ec THEN [ok |-> TRUE, c |-> ec, o |-> eo]
    ELSE IF end = Null THEN [ok |-> FALSE, c |-> Null, o |-> 0]
    ELSE IF nodeType[end] = TEXT_NODE THEN [ok |-> TRUE, c |-> end, o |-> Length(end)]
    ELSE IF parentNode[end] = Null THEN [ok |-> FALSE, c |-> Null, o |-> 0]
    ELSE [ok |-> TRUE, c |-> parentNode[end], o |-> indexOf(end) + 1]

\* One call of normalize on the range r: the range it leaves, whether it
\* threw, and the candidates its two searches ended on.
normalize(r) ==
    LET s == startAnchor(r)
        e == endAnchor(r)
        start == startSearch(firstLeaf(s.c), lastLeaf(e.c), s.c, s.o, e.c, e.o)
        sw == startCommit(start, s.c, s.o)
    IN  IF ~sw.ok
        THEN [range |-> r, threw |-> TRUE, start |-> start, end |-> lastLeaf(e.c)]
        ELSE LET end == endSearch(lastLeaf(e.c), start, s.c, s.o, e.c, e.o)
                 ew == endCommit(end, e.c, e.o)
                 r1 == [r EXCEPT !.sc = sw.c, !.so = sw.o]
             IN  IF ~ew.ok
                 THEN [range |-> r1, threw |-> TRUE, start |-> start, end |-> end]
                 ELSE [range |-> [r1 EXCEPT !.ec = ew.c, !.eo = ew.o],
                       threw |-> FALSE, start |-> start, end |-> end]

---------------------------------------------------------------------------
(* Document order of boundary points. *)

RECURSIVE tokens(_)
\* The number of tokens of node's subtree in the serialisation
\* <open> content <close>, one token per character of text.
tokens(node) ==
    LET RECURSIVE sum(_)
        sum(i) == IF i = 0 THEN 0 ELSE sum(i - 1) + tokens(childNodes[node][i])
    IN  2 + Length(node) + sum(childCount(node))

RECURSIVE position(_, _)
\* The number of tokens before the boundary point (c, o).
position(c, o) ==
    LET RECURSIVE sum(_)
        sum(i) == IF i = 0 THEN 0 ELSE sum(i - 1) + tokens(childNodes[c][i])
        open == IF parentNode[c] = Null THEN 0 ELSE position(parentNode[c], indexOf(c))
    IN  open + 1 + (IF nodeType[c] = TEXT_NODE THEN o ELSE sum(o))

RECURSIVE chars(_)
\* The number of text characters in node's subtree.
chars(node) ==
    LET RECURSIVE sum(_)
        sum(i) == IF i = 0 THEN 0 ELSE sum(i - 1) + chars(childNodes[node][i])
    IN  Length(node) + sum(childCount(node))

RECURSIVE charsBefore(_, _)
\* The number of text characters of the document before the boundary (c, o).
charsBefore(c, o) ==
    LET RECURSIVE sum(_)
        sum(i) == IF i = 0 THEN 0 ELSE sum(i - 1) + chars(childNodes[c][i])
        open == IF parentNode[c] = Null THEN 0 ELSE charsBefore(parentNode[c], indexOf(c))
    IN  open + (IF nodeType[c] = TEXT_NODE THEN o ELSE sum(o))

\* The characters (numbered from 1 through the document) inside the range r.
charsIn(r) ==
    {i \in 1..chars(1) : charsBefore(r.sc, r.so) < i /\ i <= charsBefore(r.ec, r.eo)}

notAfter(c1, o1, c2, o2) == position(c1, o1) <= position(c2, o2)

---------------------------------------------------------------------------
(* The trees and ranges normalize is called on. *)

\* Nodes are numbered in document order: node 1 is the root and the parent of
\* node i + 1 is node i or one of its ancestors.
RECURSIVE ancestorsOrSelf(_, _)
ancestorsOrSelf(par, n) ==
    IF n = 1 THEN {1} ELSE {n} \cup ancestorsOrSelf(par, par[n])

preorder(n, par) ==
    /\ \A i \in 2..n : par[i] < i
    /\ \A i \in 2..n : par[i] \in ancestorsOrSelf(par, i - 1)

sorted(S) ==
    [i \in 1..Cardinality(S) |-> CHOOSE m \in S : Cardinality({k \in S : k < m}) = i - 1]

\* The boundary points of the tree: a child index of an element, a character
\* index of a text node.
boundaries ==
    UNION {{<<n, o>> : o \in 0..(IF nodeType[n] = TEXT_NODE THEN length[n] ELSE childCount(n))} :
           n \in Node}

\* The tree of n nodes with the parents par.
treeShape(n, par) ==
    /\ preorder(n, par)
    /\ parentNode = [k \in 1..n |-> IF k = 1 THEN Null ELSE par[k]]
    /\ childNodes = [k \in 1..n |-> sorted({m \in 2..n : par[m] = k})]

\* Its nodes without children.
leaves(n, par) == {k \in 1..n : \A m \in 2..n : par[m] # k}

\* The text nodes among them, with their lengths; the rest are elements.
treeContent(n, texts, len) ==
    /\ nodeType = [k \in 1..n |-> IF k \in texts THEN TEXT_NODE ELSE ELEMENT_NODE]
    /\ length = [k \in 1..n |-> IF k \in texts THEN len[k] ELSE 0]

InitTree ==
    \E n \in 1..MaxNodes :
      \E par \in [2..n -> 1..n] :
        /\ treeShape(n, par)
        /\ \E texts \in SUBSET leaves(n, par) :
             \E len \in [texts -> 0..MaxTextLen] : treeContent(n, texts, len)

InitRange(starts, ordered) ==
    /\ \E s \in starts, e \in boundaries :
         /\ ordered => notAfter(s[1], s[2], e[1], e[2])
         /\ range = [sc |-> s[1], so |-> s[2], ec |-> e[1], eo |-> e[2]]
    /\ input = range
    /\ normalized = FALSE
    /\ threw = FALSE
    /\ cand = [start |-> Null, end |-> Null]

\* A well-formed tree and a range on it whose start is not after its end.
Init == InitTree /\ InitRange(boundaries, TRUE)

\* range = normalize(range)
Normalize ==
    LET res == normalize(range)
    IN  /\ range' = res.range
        /\ input' = range
        /\ normalized' = TRUE
        /\ threw' = res.threw
        /\ cand' = [start |-> res.start, end |-> res.end]
        /\ UNCHANGED tree

Next == Normalize

Spec == Init /\ [][Next]_vars

\* The same, on any pair of boundary points (start after end included).
InitAny == InitTree /\ InitRange(boundaries, FALSE)

SpecAny == InitAny /\ [][Next]_vars

\* The between-children trees: an element whose children are exactly three
\* text nodes A, B, C of lengths 3, 4, 5, alone or inside a larger tree of up
\* to MaxContext more nodes; the start is (that element, 2).
MaxContext == 2

ChildLens == <<3, 4, 5>>

\* The elements with exactly the children [A, B, C].
betweenElements ==
    {e \in Node : /\ childCount(e) = 3
                  /\ \A i \in 1..3 : /\ nodeType[childNodes[e][i]] = TEXT_NODE
                                     /\ length[childNodes[e][i]] = ChildLens[i]}

InitTreeBetween ==
    \E n \in 4..(4 + MaxContext) :
      \E par \in [2..n -> 1..n] :
        /\ treeShape(n, par)
        /\ \E e \in 1..(n - 3) :
             LET kids == {m \in 2..n : par[m] = e}
             IN  /\ kids = {e + 1, e + 2, e + 3}
                 /\ kids \subseteq leaves(n, par)
                 /\ \E texts \in SUBSET (leaves(n, par) \ kids) :
                      \E len \in [texts -> 0..MaxTextLen] :
                        treeContent(n, texts \cup kids,
                                    [k \in texts \cup kids |->
                                        IF k \in kids THEN ChildLens[k - e] ELSE len[k]])

InitBetween ==
    InitTreeBetween /\ InitRange({<<e, 2>> : e \in betweenElements}, TRUE)

SpecBetween == InitBetween /\ [][Next]_vars

---------------------------------------------------------------------------
(* Properties. *)

isLeaf(node) == childCount(node) = 0

startOf(r) == <<r.sc, r.so>>
endOf(r) == <<r.ec, r.eo>>

\* Node a is not after node b in document order.
nodeNotAfter(a, b) == position(a, 0) <= position(b, 0)

\* No well-formed call throws.
NoThrow == ~threw

\* C1: idempotence: once normalize has been applied, applying it again
\* leaves both boundaries exactly as they were.
C1_Idempotent == [][normalized => range' = range]_vars

\* C2: the characters between the start and the end boundary are the same
\* before and after normalize.
C2_SameCharacters == normalized => charsIn(range) = charsIn(input)

C2_Witness ==
    /\ normalized
    /\ startOf(range) # startOf(input)
    /\ endOf(range) # endOf(input)
    /\ charsIn(input) # {}

\* C3: the start boundary normalize writes is not after the end boundary it
\* writes, in document order.
C3_OrderPreserved == normalized => notAfter(range.sc, range.so, range.ec, range.eo)

C3_Witness ==
    /\ normalized
    /\ startOf(range) # startOf(input)
    /\ endOf(range) # endOf(input)
    /\ startOf(range) = endOf(range)

\* The start boundary sits on a leaf, or immediately before a non-text leaf.
leafStart(r) ==
    \/ isLeaf(r.sc) /\ r.so \in 0..Length(r.sc)
    \/ /\ r.so < childCount(r.sc)
       /\ isLeaf(childNodes[r.sc][r.so + 1])
       /\ nodeType[childNodes[r.sc][r.so + 1]] # TEXT_NODE

\* The end boundary sits on a leaf, or immediately after a non-text leaf.
leafEnd(r) ==
    \/ isLeaf(r.ec) /\ r.eo \in 0..Length(r.ec)
    \/ /\ r.eo > 0 /\ r.eo <= childCount(r.ec)
       /\ isLeaf(childNodes[r.ec][r.eo])
       /\ nodeType[childNodes[r.ec][r.eo]] # TEXT_NODE

C5_FallbackNotFailure ==
    normalized =>
      /\ cand.start = Null => ~threw /\ startOf(range) = startOf(input)
      /\ cand.end = Null => ~threw /\ endOf(range) = endOf(input)

\* The three ways of writing the empty position between the adjacent sibling
\* leaves P and S.
between(P, S) ==
    {<<P, Length(P)>>, <<parentNode[S], indexOf(S)>>, <<S, 0>>}

adjacentLeaves ==
    {p \in Node \X Node : isLeaf(p[1]) /\ isLeaf(p[2]) /\ nextSibling(p[1]) = p[2]}

\* The latest call's range had both boundaries at the position between P and S.
collapsedAt(P, S) ==
    /\ normalized
    /\ startOf(input) \in between(P, S)
    /\ endOf(input) \in between(P, S)

betweenCase ==
    /\ normalized
    /\ input.sc \in betweenElements
    /\ input.so = 2

\* C7 as stated: the normalized start is (B, 4).
C7_StartAtEndOfB ==
    betweenCase => startOf(range) = <<childNodes[input.sc][2], 4>>

\* C7 as amended: the normalized start is (C, 0), the leading edge of the
\* child after the boundary.
C7_StartAtStartOfC ==
    betweenCase => startOf(range) = <<childNodes[input.sc][3], 0>>

C7_Witness ==
    /\ betweenCase
    /\ startOf(range) = <<childNodes[input.sc][3], 0>>
    /\ nodeNotAfter(childNodes[input.sc][3], range.ec)
    /\ range.ec # childNodes[input.sc][3]

\* The latest call's start was at the trailing edge of a text leaf whose next
\* sibling is a leaf.
trailingCase ==
    /\ normalized
    /\ nodeType[input.sc] = TEXT_NODE
    /\ input.so = length[input.sc]
    /\ nextSibling(input.sc) # Null
    /\ isLeaf(nextSibling(input.sc))

\* C8 as stated: the normalized start is (S, 0), whatever the end.
C8_TrailingEdgeToSibling ==
    trailingCase => startOf(range) = <<nextSibling(input.sc), 0>>

\* C8 as amended: if the end is the same point as the start the range is left
\* as it is; otherwise the normalized start is (S, 0) for a text leaf S and
\* the position immediately before S, (parent, index of S), for a non-text
\* leaf S.
C8_TrailingEdge ==
    trailingCase =>
      LET S == nextSibling(input.sc)
      IN  IF endOf(input) = startOf(input) THEN range = input
          ELSE IF nodeType[S] = TEXT_NODE THEN startOf(range) = <<S, 0>>
          ELSE startOf(range) = <<parentNode[S], indexOf(S)>>

C8_Witness ==
    /\ trailingCase
    /\ endOf(input) # startOf(input)
    /\ nodeType[nextSibling(input.sc)] = TEXT_NODE
    /\ startOf(range) = <<nextSibling(input.sc), 0>>

\* The latest call's end was at the leading edge of a text leaf whose previous
\* sibling is a leaf.
leadingCase ==
    /\ normalized
    /\ nodeType[input.ec] = TEXT_NODE
    /\ input.eo = 0
    /\ previousSibling(input.ec) # Null
    /\ isLeaf(previousSibling(input.ec))

\* C9 as stated: the normalized end is (P, M), whatever the start.
C9_LeadingEdgeToSibling ==
    leadingCase =>
      endOf(range) = <<previousSibling(input.ec), Length(previousSibling(input.ec))>>

\* C9 as amended: if the start is before the trailing edge (P, M) of P, the
\* normalized end is (P, M) for a text leaf P and the position immediately
\* after P, (parent, index of the end container), for a non-text leaf P; if
\* the start is at (P, M) or later, the end stays (end container, 0).
C9_LeadingEdge ==
    leadingCase =>
      LET P == previousSibling(input.ec)
      IN  IF position(input.sc, input.so) < position(P, Length(P))
          THEN IF nodeType[P] = TEXT_NODE THEN endOf(range) = <<P, Length(P)>>
               ELSE endOf(range) = <<parentNode[P], indexOf(P) + 1>>
          ELSE endOf(range) = endOf(input)

C9_Witness ==
    /\ leadingCase
    /\ nodeType[previousSibling(input.ec)] = TEXT_NODE
    /\ length[previousSibling(input.ec)] > 0
    /\ endOf(range) = <<previousSibling(input.ec), length[previousSibling(input.ec)]>>

\* C10: both searches end on a node of the tree, never on null; the start
\* candidate is not past the last leaf of the adjusted end container, and the
\* end candidate is not before the final start candidate.
C10_SearchesMeet ==
    normalized =>
      /\ cand.start \in Node
      /\ cand.end \in Node
      /\ nodeNotAfter(cand.start, lastLeaf(endAnchor(input).c))
      /\ nodeNotAfter(cand.start, cand.end)

\* The start search moved and stopped on the end candidate, a leaf that is
\* not included in the range.
C10_Witness ==
    /\ normalized
    /\ cand.start = cand.end
    /\ cand.start # firstLeaf(startAnchor(input).c)
    /\ ~isLeafNodeInRange(cand.start, startAnchor(input).c, startAnchor(input).o,
                          endAnchor(input).c, endAnchor(input).o)

=============================================================================
